---------------------------- MODULE Spec2Model ----------------------------
(***************************************************************************)
(* Model of the two record-stream tools of adaptive-force-matching-tools:  *)
(*   scr_ref/xyz_fix_linenu.py     (line-count normalizer)                 *)
(*   scr_ref/xyz_add_gen_msite.py  (M-site insertion)                      *)
(*                                                                         *)
(* A text line is a record [lead, toks]: lead is the number of blanks in   *)
(* front of the first token and toks is what str.split() returns.  Two     *)
(* lines with the same tokens and a different lead are different texts.    *)
(* Numbers inside lines are tokens (strings); int() and float() are the    *)
(* partial parsers IntOf / FloatOf, and formatting goes back to a token.   *)
(* Coordinates and coefficients are whole numbers, so the arithmetic of    *)
(* the site synthesizer is exact.                                          *)
(***************************************************************************)
EXTENDS Integers, Sequences, FiniteSets, TLC

\* ------------------------------------------------------------- bounds
\* longest file given to the normalizer, in lines
MaxFileLines == 5

\* ------------------------------------------------------------- lines
Line(lead, toks) == [lead |-> lead, toks |-> toks]

\* line.split() / line.strip().split()
Split(line) == line.toks

\* the values int() is asked about in this model
IntRange == 0 .. (MaxFileLines + 2)

\* the texts int() reads as n: the decimal numeral, and for 1 also "01"
IntForms(n) == {ToString(n)} \cup (IF n = 1 THEN {"01"} ELSE {})

\* int(tok) succeeds
IsInt(tok) == \E n \in IntRange : tok \in IntForms(n)

\* int(tok)
IntOf(tok) == CHOOSE n \in IntRange : tok \in IntForms(n)

\* f"{n}\n"
FormatCount(n) == Line(0, <<ToString(n)>>)

\* xyz_fix_linenu.is_line_count
is_line_count(line) ==
    LET parts == Split(line)
    IN  Len(parts) = 1 /\ IsInt(parts[1])

\* ------------------------------------------------- xyz_fix_linenu.main
VARIABLES
    lines,      \* f.readlines()
    i,          \* index of the next line to look at (1-based)
    frames,     \* the frames collected so far
    fout,       \* what has been written to standard output
    fpc,        \* "start", "parse" (while loop), "emit" (for loop), "done", "exit"
    ffound,     \* the named input file exists
    ferr,       \* what has been written to standard error
    fexit       \* the exit status once the run has ended

\* the part of the normalizer's state that only the start of main sets
fixIO == <<ffound, ferr, fexit>>

fixVars == <<lines, i, frames, fout, fpc, fixIO>>

\* the state of xyz_add_gen_msite.main
VARIABLES
    definitions,        \* the loaded definition list
    inp,                \* the lines the for loop has read so far
    header_mode,
    current_mol_id,
    current_mol_lines,
    out,                \* what has been written to standard output
    pc,                 \* "start", "read" (for loop), "done", "exit"
                        \* (sys.exit(1)), "raised" (IndexError)
    mol_lines,          \* process_molecule's argument at its latest call
    insertions,         \* process_molecule's insertions at its latest call
    output_lines,       \* process_molecule's output_lines at its latest call
    def_found,          \* the named definition file exists
    input_found,        \* the named input file exists
    err,                \* what has been written to standard error
    exit_code           \* the exit status once the run has ended

\* the files named on the command line
msFiles == <<def_found, input_found>>

msVars == <<definitions, inp, header_mode, current_mol_id, current_mol_lines,
            out, pc, mol_lines, insertions, output_lines, msFiles, err, exit_code>>

\* the state of xyz_add_gen_msite.parse_msite_definitions
VARIABLES
    def_file,   \* the lines of the definition file
    def_lines,  \* the list `lines`: stripped, without blank and comment lines
    di,         \* the index i into def_lines (1-based)
    parsed,     \* the list `definitions` being built
    dwarn,      \* the warnings written to standard error
    dpc         \* "open", "loop", "returned"

defVars == <<def_file, def_lines, di, parsed, dwarn, dpc>>

\* the state of the selection loop of 02_gen_pxyz.py
VARIABLES
    file_list,          \* the gro files still to be completed
    number_of_gro,
    number_of_zeros,
    completed_gro,
    iterations,
    written,            \* the file names move_and_clean has moved results to
    gpc,                \* "loop", "done", "exit" (sys.exit(1))
    gexit               \* the exit status once the run has ended

selVars == <<file_list, number_of_gro, number_of_zeros, completed_gro,
             iterations, written, gpc, gexit>>

vars == <<fixVars, msVars, defVars, selVars>>

\* what each tool leaves alone
notFix == <<msVars, defVars, selVars>>
notMs == <<fixVars, defVars, selVars>>
notDefs == <<fixVars, msVars, selVars>>
notSel == <<fixVars, msVars, defVars>>

\* 02_gen_pxyz.py is not running
IdleSel ==
    /\ file_list = <<>> /\ number_of_gro = 0 /\ number_of_zeros = 0
    /\ completed_gro = <<>> /\ iterations = 0 /\ written = <<>>
    /\ gpc = "idle" /\ gexit = 0

\* parse_msite_definitions is not running
IdleDefs ==
    /\ def_file = <<>> /\ def_lines = <<>> /\ di = 1
    /\ parsed = <<>> /\ dwarn = <<>> /\ dpc = "idle"

\* the insertion pass is not running
IdleMs ==
    /\ definitions = <<>> /\ inp = <<>> /\ header_mode = TRUE
    /\ current_mol_id = <<>> /\ current_mol_lines = <<>> /\ out = <<>>
    /\ pc = "idle" /\ mol_lines = <<>> /\ insertions = <<>> /\ output_lines = <<>>
    /\ def_found = TRUE /\ input_found = TRUE /\ err = <<>> /\ exit_code = 0

\* the normalizer is not running
IdleFix ==
    /\ lines = <<>> /\ i = 1 /\ frames = <<>> /\ fout = <<>> /\ fpc = "idle"
    /\ ffound = TRUE /\ ferr = <<>> /\ fexit = 0

\* the inner while loop: the first index >= j that is past the end or a count line
RECURSIVE BodyEnd(_, _)
BodyEnd(ls, j) ==
    IF j <= Len(ls) /\ ~is_line_count(ls[j]) THEN BodyEnd(ls, j + 1) ELSE j

\* a variant of the frame record that keeps the count the input declared
DeclaredFrame(ls, start, stop) ==
    [count_line_index |-> start,
     comment          |-> ls[start + 1],
     lines            |-> SubSeq(ls, start + 2, stop - 1),
     actual_count     |-> IntOf(Split(ls[start])[1])]

\* a variant of the frame record whose count includes the comment line
CommentCountedFrame(ls, start, stop) ==
    [count_line_index |-> start,
     comment          |-> ls[start + 1],
     lines            |-> SubSeq(ls, start + 2, stop - 1),
     actual_count     |-> Len(SubSeq(ls, start + 1, stop - 1))]

\* the frame record appended at frames.append(...): count line at start,
\* comment at start + 1, body start + 2 .. stop - 1
MakeFrame(ls, start, stop) ==
    [count_line_index |-> start,
     comment          |-> ls[start + 1],
     lines            |-> SubSeq(ls, start + 2, stop - 1),
     actual_count     |-> Len(SubSeq(ls, start + 2, stop - 1))]

\* a variant that gives up at a line that should be a count line and is not
ParseStepFailFast(ls, j, fs) ==
    IF is_line_count(ls[j])
    THEN IF j + 1 <= Len(ls)
         THEN LET stop == BodyEnd(ls, j + 2)
              IN  [i |-> stop, frames |-> Append(fs, MakeFrame(ls, j, stop))]
         ELSE [i |-> j + 1, frames |-> fs]
    ELSE [i |-> Len(ls) + 1, frames |-> fs]

\* one iteration of the outer while loop, as [i, frames] after it
ParseStep(ls, j, fs) ==
    IF is_line_count(ls[j])
    THEN IF j + 1 <= Len(ls)
         THEN LET stop == BodyEnd(ls, j + 2)
              IN  [i |-> stop, frames |-> Append(fs, MakeFrame(ls, j, stop))]
         ELSE [i |-> j + 1, frames |-> fs]
    ELSE [i |-> j + 1, frames |-> fs]

\* the whole while loop
RECURSIVE ParseFrames(_, _, _)
ParseFrames(ls, j, fs) ==
    IF j <= Len(ls)
    THEN LET r == ParseStep(ls, j, fs) IN ParseFrames(ls, r.i, r.frames)
    ELSE fs

\* the three writes of the output loop for one frame
FrameText(frame) ==
    <<FormatCount(frame.actual_count), frame.comment>> \o frame.lines

\* the lines of the files the normalizer is run on
FixLines ==
    { Line(0, <<"0">>), Line(0, <<"1">>), Line(0, <<"2">>),
      Line(1, <<"1">>), Line(0, <<"01">>),
      Line(0, <<"c">>),
      Line(0, <<"C1", "0", "0", "0", "0", "0", "0", "1.0", "7">>) }

RECURSIVE SeqsUpTo(_, _)
SeqsUpTo(S, n) ==
    IF n = 0 THEN {<<>>}
    ELSE LET shorter == SeqsUpTo(S, n - 1)
         IN  shorter \cup {Append(s, x) : s \in {t \in shorter : Len(t) = n - 1}, x \in S}

\* main is entered with a file name: the file is absent, or it is present
\* and holds `lines`
InitFix ==
    /\ ffound \in BOOLEAN
    /\ lines \in (IF ffound THEN SeqsUpTo(FixLines, MaxFileLines) ELSE {<<>>})
    /\ i = 1
    /\ frames = <<>>
    /\ fout = <<>>
    /\ fpc = "start"
    /\ ferr = <<>>
    /\ fexit = 0
    /\ IdleMs /\ IdleDefs /\ IdleSel

\* a variant that takes the absent file for an empty one
FixNoFileAsEmpty ==
    /\ fpc = "start"
    /\ ~ffound
    /\ fpc' = "parse"
    /\ UNCHANGED <<lines, i, frames, fout, fixIO, notFix>>

\* open() raises FileNotFoundError: the message goes to standard error and
\* the run ends with sys.exit(1)
FixNoFile ==
    /\ fpc = "start"
    /\ ~ffound
    /\ ferr' = Append(ferr, "Error: File not found")
    /\ fexit' = 1
    /\ fpc' = "exit"
    /\ UNCHANGED <<lines, i, frames, fout, ffound, notFix>>

\* the file is opened and f.readlines() returns its lines
FixRead ==
    /\ fpc = "start"
    /\ ffound
    /\ fpc' = "parse"
    /\ UNCHANGED <<lines, i, frames, fout, fixIO, notFix>>

\* one iteration of `while i < len(lines)`
FixParse ==
    /\ fpc = "parse"
    /\ i <= Len(lines)
    /\ LET r == ParseStep(lines, i, frames)
       IN  i' = r.i /\ frames' = r.frames
    /\ UNCHANGED <<lines, fout, fpc>>
    /\ UNCHANGED <<fixIO, notFix>>

\* the while loop ends; the output loop starts at the first frame
FixParsed ==
    /\ fpc = "parse"
    /\ i > Len(lines)
    /\ fpc' = "emit"
    /\ i' = 1
    /\ UNCHANGED <<lines, frames, fout>>
    /\ UNCHANGED <<fixIO, notFix>>

\* one iteration of `for frame in frames`
FixEmit ==
    /\ fpc = "emit"
    /\ i <= Len(frames)
    /\ fout' = fout \o FrameText(frames[i])
    /\ i' = i + 1
    /\ UNCHANGED <<lines, frames, fpc>>
    /\ UNCHANGED <<fixIO, notFix>>

\* the output loop ends
FixDone ==
    /\ fpc = "emit"
    /\ i > Len(frames)
    /\ fpc' = "done"
    /\ UNCHANGED <<lines, i, frames, fout>>
    /\ UNCHANGED <<fixIO, notFix>>

NextFix == FixNoFile \/ FixRead \/ FixParse \/ FixParsed \/ FixEmit \/ FixDone

SpecFix == InitFix /\ [][NextFix]_vars

\* --------------------------------------------------- xyz_add_gen_msite
\* longest input stream read by the insertion pass, in lines
MaxLines == 3
\* longest definition list
MaxDefs == 2
\* longest pattern the matcher is asked about
MaxPat == 3

\* float(tok) succeeds: the coordinate texts of this model
IsFloat(tok) == tok \in {"0", "1", "2"}

\* float(tok)
FloatOf(tok) == CASE tok = "0" -> 0 [] tok = "1" -> 1 [] tok = "2" -> 2

\* f"{v:11.7f}" for a whole number v (the blanks of the padding separate tokens)
Format7(v) == ToString(v) \o ".0000000"

\* Python's None for a molecule id is <<>>, an id token t is <<t>>
None == <<>>

\* get_molecule_id
get_molecule_id(line) ==
    LET parts == Split(line)
    IN  IF Len(parts) >= 8 THEN <<parts[Len(parts)]>> ELSE None

\* is_atom_line
is_atom_line(line) ==
    LET parts == Split(line)
    IN  IF Len(parts) < 4 THEN FALSE
        ELSE IsFloat(parts[2]) /\ IsFloat(parts[3]) /\ IsFloat(parts[4])

\* the (name, occurrence rank) each pattern slot asks for
pattern_occurrences(pattern) ==
    [s \in 1 .. Len(pattern) |->
        <<pattern[s], Cardinality({t \in 1 .. s : pattern[t] = pattern[s]})>>]

\* the loop `for atom in atoms`: found[s] is the index in atoms of the atom
\* bound to slot s, 0 while found_atoms[s] is None
RECURSIVE ScanAtoms(_, _, _, _, _)
ScanAtoms(atoms, a, occ, atom_counts, found) ==
    IF a > Len(atoms) THEN found
    ELSE LET name == atoms[a].name
         IN  IF name \in DOMAIN atom_counts
             THEN LET current_occurrence == atom_counts[name] + 1
                      hits == {s \in 1 .. Len(occ) : occ[s] = <<name, current_occurrence>>}
                      counts2 == [atom_counts EXCEPT ![name] = current_occurrence]
                  IN  IF hits = {} THEN ScanAtoms(atoms, a + 1, occ, counts2, found)
                      ELSE LET s0 == CHOOSE s \in hits : \A t \in hits : s <= t
                           IN  ScanAtoms(atoms, a + 1, occ, counts2,
                                   IF found[s0] = 0 THEN [found EXCEPT ![s0] = a]
                                   ELSE found)
             ELSE ScanAtoms(atoms, a + 1, occ, atom_counts, found)

\* found_atoms after the scan
FoundAtoms(atoms, pattern) ==
    ScanAtoms(atoms, 1, pattern_occurrences(pattern),
              [n \in {pattern[s] : s \in 1 .. Len(pattern)} |-> 0],
              [s \in 1 .. Len(pattern) |-> 0])

\* a variant of the matcher that binds every slot to the first atom of its name
find_first_of_name(atoms, pattern) ==
    IF \A s \in 1 .. Len(pattern) : \E a \in 1 .. Len(atoms) : atoms[a].name = pattern[s]
    THEN [s \in 1 .. Len(pattern) |->
            atoms[CHOOSE a \in 1 .. Len(atoms) :
                    /\ atoms[a].name = pattern[s]
                    /\ \A b \in 1 .. (a - 1) : atoms[b].name # pattern[s]]]
    ELSE <<>>

\* a variant of the matcher that returns the atoms it could bind when some
\* slot stayed unbound
find_bound_atoms(atoms, pattern) ==
    LET found == FoundAtoms(atoms, pattern)
        bound == SelectSeq(found, LAMBDA a : a # 0)
    IN  [s \in 1 .. Len(bound) |-> atoms[bound[s]]]

\* find_pattern_in_molecule: the bound atoms in pattern order, or <<>> for
\* None (a returned list is never empty: a pattern has at least one name)
find_pattern_in_molecule(atoms, pattern) ==
    LET found == FoundAtoms(atoms, pattern)
    IN  IF \A s \in 1 .. Len(pattern) : found[s] # 0
        THEN [s \in 1 .. Len(pattern) |-> atoms[found[s]]]
        ELSE <<>>

\* the loop that parses the atoms of a molecule; line_index is 1-based here
RECURSIVE ParseAtoms(_, _)
ParseAtoms(mol, n) ==
    IF n = 0 THEN <<>>
    ELSE LET before == ParseAtoms(mol, n - 1)
             parts == Split(mol[n])
         IN  IF is_atom_line(mol[n])
             THEN Append(before, [name |-> parts[1],
                                  x |-> FloatOf(parts[2]),
                                  y |-> FloatOf(parts[3]),
                                  z |-> FloatOf(parts[4]),
                                  line_index |-> n])
             ELSE before

RECURSIVE CoefficientTotal(_, _)
CoefficientTotal(coefficients, n) ==
    IF n = 0 THEN 0 ELSE CoefficientTotal(coefficients, n - 1) + coefficients[n]

RECURSIVE RawWeightedSum(_, _, _, _)
RawWeightedSum(coefficients, pattern_atoms, c, n) ==
    IF n = 0 THEN 0
    ELSE RawWeightedSum(coefficients, pattern_atoms, c, n - 1)
           + coefficients[n] * pattern_atoms[n][c]

\* a variant of the weighted sum that normalizes by the coefficients' total
NormalizedSum(coefficients, pattern_atoms, c, n) ==
    RawWeightedSum(coefficients, pattern_atoms, c, n) \div CoefficientTotal(coefficients, n)

\* sum(coefficients[i] * atom[c] for i, atom in enumerate(pattern_atoms))
RECURSIVE WeightedSum(_, _, _, _)
WeightedSum(coefficients, pattern_atoms, c, n) ==
    IF n = 0 THEN 0
    ELSE WeightedSum(coefficients, pattern_atoms, c, n - 1)
           + coefficients[n] * pattern_atoms[n][c]

\* the text of the synthesized record; called only with 9 or more, or fewer
\* than 8, template tokens
msite_line(defn, mx, my, mz, parts) ==
    LET head == <<defn.msite_name, Format7(mx), Format7(my), Format7(mz)>>
    IN  IF Len(parts) >= 8
        THEN Line(0, head \o <<"0.0000000", "0.0000000", "0.0000000", parts[8], parts[9]>>)
        ELSE Line(0, head)

\* a variant that puts x in the place of the element in front of the index
ListOverwrite(seq, index, x) ==
    LET at == IF index > Len(seq) THEN Len(seq) ELSE index
    IN  [seq EXCEPT ![at] = x]

\* a variant that puts x behind every element, whatever the index
ListAppendLast(seq, index, x) == Append(seq, x)

\* list.insert(index, x): x goes in front of the element at 0-based index
ListInsert(seq, index, x) ==
    LET at == IF index > Len(seq) THEN Len(seq) ELSE index
    IN  SubSeq(seq, 1, at) \o <<x>> \o SubSeq(seq, at + 1, Len(seq))

\* the loop `for defn in definitions`: the insertions list, and whether the
\* loop raised IndexError (a template of exactly 8 tokens has no parts[8])
RECURSIVE TryDefinitions(_, _, _, _)
TryDefinitions(mol, atoms, defs, n) ==
    IF n = 0 THEN [raised |-> FALSE, insertions |-> <<>>]
    ELSE LET before == TryDefinitions(mol, atoms, defs, n - 1)
             defn == defs[n]
             pattern_atoms == find_pattern_in_molecule(atoms, defn.atom_names)
         IN  IF before.raised \/ pattern_atoms = <<>> THEN before
             ELSE LET m == Len(pattern_atoms)
                      mx == WeightedSum(defn.coefficients, pattern_atoms, "x", m)
                      my == WeightedSum(defn.coefficients, pattern_atoms, "y", m)
                      mz == WeightedSum(defn.coefficients, pattern_atoms, "z", m)
                      last_pattern_atom == pattern_atoms[m]
                      parts == Split(mol[last_pattern_atom.line_index])
                  IN  IF Len(parts) = 8
                      THEN [raised |-> TRUE, insertions |-> before.insertions]
                      ELSE [raised |-> FALSE,
                            insertions |-> Append(before.insertions,
                                [index |-> last_pattern_atom.line_index,
                                 line  |-> msite_line(defn, mx, my, mz, parts)])]

\* the loop `for index, line in reversed(insertions)`, the n first
\* insertions still to apply
RECURSIVE ApplyInsertions(_, _, _)
ApplyInsertions(output, ins, n) ==
    IF n = 0 THEN output
    ELSE ApplyInsertions(ListInsert(output, ins[n].index, ins[n].line), ins, n - 1)

\* process_molecule: its locals when it returns or raises
process_molecule(mol, defs) ==
    LET atoms == ParseAtoms(mol, Len(mol))
        tried == TryDefinitions(mol, atoms, defs, Len(defs))
    IN  [raised       |-> tried.raised,
         insertions   |-> tried.insertions,
         output_lines |-> IF tried.raised THEN mol
                          ELSE ApplyInsertions(mol, tried.insertions,
                                               Len(tried.insertions))]

\* ---------------------------------------------- xyz_add_gen_msite.main
\* an atom record of 9 tokens: name, coordinates, forces, mass, molecule id
AtomLine(name, x, y, z, id) == Line(0, <<name, x, y, z, "5", "5", "5", "1.0", id>>)

\* the lines of the streams the insertion pass is run on
MsLines ==
    { AtomLine("C1", "1", "2", "0", "7"),
      AtomLine("H2", "0", "1", "2", "7"),
      AtomLine("C1", "2", "0", "1", "7"),
      AtomLine("C1", "1", "2", "0", "8"),
      \* 8 tokens: no mass column
      Line(0, <<"H2", "2", "1", "0", "5", "5", "5", "7">>),
      \* 10 tokens: a column after the molecule id column
      Line(0, <<"C1", "0", "2", "1", "5", "5", "5", "1.0", "9", "7">>),
      \* 9 tokens, no coordinates
      Line(0, <<"NetF", "x", "x", "x", "5", "5", "5", "1.0", "7">>),
      \* fewer than 8 tokens: a count or comment line, a bare name + coordinates
      Line(0, <<"3">>),
      Line(0, <<"H2", "1", "0", "2">>) }

Definition(names, site, coeffs) ==
    [atom_names |-> names, msite_name |-> site, coefficients |-> coeffs]

\* the definitions of the definition files the insertion pass is run with
Definitions ==
    { Definition(<<"C1", "H2", "C1">>, "EM", <<2, 0 - 1, 3>>),
      Definition(<<"H2">>, "M2", <<3>>),
      Definition(<<"H2", "C1">>, "M3", <<1, 1>>) }

\* the definition lists: up to MaxDefs different definitions, in any order
DefinitionLists ==
    {ds \in SeqsUpTo(Definitions, MaxDefs) :
        \A a, b \in 1 .. Len(ds) : a # b => ds[a] # ds[b]}

\* main is entered with two file names: the definition file is absent, or it
\* is present and parse_msite_definitions returns `definitions` from it; the
\* input file is absent or present
InitMs ==
    /\ def_found \in BOOLEAN
    /\ input_found \in (IF def_found THEN BOOLEAN ELSE {TRUE})
    /\ definitions \in (IF def_found THEN DefinitionLists ELSE {<<>>})
    /\ err = <<>>
    /\ exit_code = 0
    /\ inp = <<>>
    /\ header_mode = TRUE
    /\ current_mol_id = None
    /\ current_mol_lines = <<>>
    /\ out = <<>>
    /\ pc = "start"
    /\ mol_lines = <<>>
    /\ insertions = <<>>
    /\ output_lines = <<>>
    /\ IdleFix /\ IdleDefs /\ IdleSel

\* a variant in which header mode follows the line just read
HeaderOfLine(mode, mol_id) == mol_id = None

\* header_mode once the test `if header_mode and mol_id is not None` has run
HeaderAfter(mode, mol_id) == mode /\ mol_id = None

\* a variant that keeps the written group in the buffer, in front of the
\* lines of the next one
FlushKeeping(thenId, thenLines, thenOut, thenPc) ==
    LET r == process_molecule(current_mol_lines, definitions)
    IN  /\ mol_lines' = current_mol_lines
        /\ insertions' = r.insertions
        /\ output_lines' = r.output_lines
        /\ out' = out \o r.output_lines \o thenOut
        /\ current_mol_id' = thenId
        /\ current_mol_lines' = current_mol_lines \o thenLines
        /\ pc' = IF r.raised THEN "raised" ELSE thenPc
        /\ UNCHANGED <<err, exit_code>>

\* the call process_molecule(current_mol_lines, definitions) followed by the
\* writes of its result and by the rest of the caller's branch (then...); an
\* IndexError raised in the call ends the run before anything is written: the
\* interpreter prints the traceback to standard error and exits with status 1
Flush(thenId, thenLines, thenOut, thenPc) ==
    LET r == process_molecule(current_mol_lines, definitions)
    IN  /\ mol_lines' = current_mol_lines
        /\ insertions' = r.insertions
        /\ output_lines' = r.output_lines
        /\ IF r.raised
           THEN /\ pc' = "raised"
                /\ err' = Append(err, "IndexError")
                /\ exit_code' = 1
                /\ UNCHANGED <<out, current_mol_id, current_mol_lines>>
           ELSE /\ out' = out \o r.output_lines \o thenOut
                /\ current_mol_id' = thenId
                /\ current_mol_lines' = thenLines
                /\ pc' = thenPc
                /\ UNCHANGED <<err, exit_code>>

\* `if not definitions: print("Warning: ...", file=sys.stderr)`
NoDefinitionsWarning(defs) ==
    IF defs = <<>> THEN <<"Warning: No M-site definitions found">> ELSE <<>>

\* parse_msite_definitions raises on the absent file: the message goes to
\* standard error and the run ends with sys.exit(1)
MsNoDefFile ==
    /\ pc = "start"
    /\ ~def_found
    /\ err' = Append(err, "Error reading definition file")
    /\ exit_code' = 1
    /\ pc' = "exit"
    /\ UNCHANGED <<definitions, inp, header_mode, current_mol_id,
                   current_mol_lines, out, mol_lines, insertions, output_lines,
                   msFiles, notMs>>

\* the definitions are loaded; open() of the input raises FileNotFoundError
MsNoInputFile ==
    /\ pc = "start"
    /\ def_found /\ ~input_found
    /\ err' = err \o NoDefinitionsWarning(definitions)
                  \o <<"Error: File not found">>
    /\ exit_code' = 1
    /\ pc' = "exit"
    /\ UNCHANGED <<definitions, inp, header_mode, current_mol_id,
                   current_mol_lines, out, mol_lines, insertions, output_lines,
                   msFiles, notMs>>

\* the definitions are loaded and the input is opened
MsOpen ==
    /\ pc = "start"
    /\ def_found /\ input_found
    /\ err' = err \o NoDefinitionsWarning(definitions)
    /\ pc' = "read"
    /\ UNCHANGED <<definitions, inp, header_mode, current_mol_id,
                   current_mol_lines, out, mol_lines, insertions, output_lines,
                   msFiles, exit_code, notMs>>

\* the for loop reads a line while header_mode stays on
ReadHeader(line) ==
    /\ pc = "read" /\ Len(inp) < MaxLines
    /\ HeaderAfter(header_mode, get_molecule_id(line))
    /\ header_mode' = TRUE
    /\ inp' = Append(inp, line)
    /\ out' = Append(out, line)
    /\ UNCHANGED <<definitions, current_mol_id, current_mol_lines,
                   pc, mol_lines, insertions, output_lines, msFiles, err,
                   exit_code, notMs>>

\* the for loop reads a line whose id equals current_mol_id
ReadSame(line) ==
    /\ pc = "read" /\ Len(inp) < MaxLines
    /\ ~HeaderAfter(header_mode, get_molecule_id(line))
    /\ get_molecule_id(line) = current_mol_id
    /\ inp' = Append(inp, line)
    /\ header_mode' = FALSE
    /\ current_mol_lines' = Append(current_mol_lines, line)
    /\ UNCHANGED <<definitions, current_mol_id, out, pc, mol_lines, insertions,
                   output_lines, msFiles, err, exit_code, notMs>>

\* the for loop reads a line whose id differs from current_mol_id
ReadOther(line) ==
    /\ pc = "read" /\ Len(inp) < MaxLines
    /\ ~HeaderAfter(header_mode, get_molecule_id(line))
    /\ get_molecule_id(line) # current_mol_id
    /\ inp' = Append(inp, line)
    /\ header_mode' = FALSE
    /\ LET mol_id == get_molecule_id(line)
           thenId == mol_id
           thenLines == IF mol_id # None THEN <<line>> ELSE <<>>
           thenOut == IF mol_id # None THEN <<>> ELSE <<line>>
       IN  IF current_mol_lines # <<>>
           THEN Flush(thenId, thenLines, thenOut, pc)
           ELSE /\ current_mol_id' = thenId
                /\ current_mol_lines' = thenLines
                /\ out' = out \o thenOut
                /\ UNCHANGED <<pc, mol_lines, insertions, output_lines, err,
                               exit_code>>
    /\ UNCHANGED <<definitions, msFiles, notMs>>

\* the input ends: the last molecule is processed
EndOfInput ==
    /\ pc = "read"
    /\ IF current_mol_lines # <<>>
       THEN Flush(current_mol_id, current_mol_lines, <<>>, "done")
       ELSE /\ pc' = "done"
            /\ UNCHANGED <<current_mol_id, current_mol_lines, out, mol_lines,
                           insertions, output_lines, err, exit_code>>
    /\ UNCHANGED <<definitions, inp, header_mode, msFiles, notMs>>

NextMs ==
    \/ MsNoDefFile
    \/ MsNoInputFile
    \/ MsOpen
    \/ \E line \in MsLines : ReadHeader(line)
    \/ \E line \in MsLines : ReadSame(line)
    \/ \E line \in MsLines : ReadOther(line)
    \/ EndOfInput

SpecMs == InitMs /\ [][NextMs]_vars

\* ------------------------------------------- parse_msite_definitions
\* longest definition file, in lines
MaxDefLines == 6

\* line.strip(): the blanks in front of the first token are gone
Strip(line) == Line(0, line.toks)

\* line.startswith('#'), asked of the line as read
StartsWithHash(line) ==
    line.lead = 0 /\ Len(line.toks) > 0 /\ line.toks[1] = "#"

\* the filter of the list comprehension: `line.strip() and not line.startswith('#')`
IsContent(line) == line.toks # <<>> /\ ~StartsWithHash(line)

\* lines = [line.strip() for line in f if ...]
RECURSIVE ContentLines(_)
ContentLines(file) ==
    IF file = <<>> THEN <<>>
    ELSE (IF IsContent(Head(file)) THEN <<Strip(Head(file))>> ELSE <<>>)
         \o ContentLines(Tail(file))

\* pattern_parts[:-1]
AllButLast(parts) == SubSeq(parts, 1, Len(parts) - 1)

\* [float(c) for c in coeff_parts] raises ValueError
FloatsRaise(coeff_parts) ==
    \E k \in 1..Len(coeff_parts) : ~IsFloat(coeff_parts[k])

\* [float(c) for c in coeff_parts]
Floats(coeff_parts) == [k \in 1..Len(coeff_parts) |-> FloatOf(coeff_parts[k])]

\* a variant that moves on by one line after a block it does not load
SkipOneLine(j) == j + 1

\* `i += 3` of a block that is not loaded
SkipBlock(j) == j + 3

\* one iteration of `while i < len(lines)` that does not break: the block at
\* ls[j], ls[j+1], ls[j+2] is loaded or skipped with a warning
ParseBlock(ls, j, ds, warns) ==
    LET mol_type == ls[j]
        pattern_parts == Split(ls[j + 1])
        coeff_parts == Split(ls[j + 2])
        atom_names == AllButLast(pattern_parts)
        msite_name == pattern_parts[Len(pattern_parts)]
    IN  IF Len(pattern_parts) < 2
        THEN [i |-> SkipBlock(j), definitions |-> ds,
              warns |-> Append(warns, <<"Invalid pattern line", mol_type>>)]
        ELSE IF FloatsRaise(coeff_parts)
        THEN [i |-> SkipBlock(j), definitions |-> ds,
              warns |-> Append(warns, <<"Invalid coefficients", mol_type>>)]
        ELSE IF Len(coeff_parts) # Len(atom_names)
        THEN [i |-> SkipBlock(j), definitions |-> ds,
              warns |-> Append(warns, <<"Coefficient count mismatch", mol_type>>)]
        ELSE [i |-> j + 3,
              definitions |-> Append(ds, [mol_type |-> mol_type,
                                          atom_names |-> atom_names,
                                          msite_name |-> msite_name,
                                          coefficients |-> Floats(coeff_parts)]),
              warns |-> warns]

\* the lines a definition file is made of: a one-token line, a two-token
\* line without a number, one number, two numbers, a blank line, a comment
DefFileLines ==
    { Line(0, <<"EM">>), Line(1, <<"C1", "EM">>), Line(0, <<"1">>),
      Line(0, <<"1", "2">>), Line(0, <<>>), Line(0, <<"#">>) }

InitDefs ==
    /\ def_file \in SeqsUpTo(DefFileLines, MaxDefLines)
    /\ def_lines = <<>>
    /\ di = 1
    /\ parsed = <<>>
    /\ dwarn = <<>>
    /\ dpc = "open"
    /\ IdleFix /\ IdleMs /\ IdleSel

\* the file is read and filtered
DefsOpen ==
    /\ dpc = "open"
    /\ def_lines' = ContentLines(def_file)
    /\ dpc' = "loop"
    /\ UNCHANGED <<def_file, di, parsed, dwarn>>
    /\ UNCHANGED notDefs

\* one iteration of the while loop over a whole block
DefsBlock ==
    /\ dpc = "loop"
    /\ di <= Len(def_lines) /\ di + 2 <= Len(def_lines)
    /\ LET r == ParseBlock(def_lines, di, parsed, dwarn)
       IN  di' = r.i /\ parsed' = r.definitions /\ dwarn' = r.warns
    /\ UNCHANGED <<def_file, def_lines, dpc>>
    /\ UNCHANGED notDefs

\* the loop ends, by its condition or by `if i + 2 >= len(lines): break`
DefsReturn ==
    /\ dpc = "loop"
    /\ (di > Len(def_lines) \/ di + 2 > Len(def_lines))
    /\ dpc' = "returned"
    /\ UNCHANGED <<def_file, def_lines, di, parsed, dwarn>>
    /\ UNCHANGED notDefs

NextDefs == DefsOpen \/ DefsBlock \/ DefsReturn

SpecDefs == InitDefs /\ [][NextDefs]_vars

\* ------------------------------------------ 02_gen_pxyz.py, selection loop
\* the largest number of gro files
MaxGro == 3
\* the number of iterations after which the loop gives up
MaxIterations == 3000

\* len(str(n)) for n >= 0
RECURSIVE Digits(_)
Digits(n) == IF n < 10 THEN 1 ELSE 1 + Digits(n \div 10)

\* the text s of length len with zeros in front up to width w
RECURSIVE ZeroPad(_, _, _)
ZeroPad(str, len, w) == IF len >= w THEN str ELSE ZeroPad("0" \o str, len + 1, w)

\* make_filename
make_filename(num_zeros, file_number) ==
    "02_pxyz_files/" \o "final"
       \o ZeroPad(ToString(file_number), Digits(file_number), num_zeros) \o ".pxyz"

\* get_grofiles() when the directory holds n gro files
GroFiles(n) == [k \in 1 .. n |-> "01_grofiles/" \o ToString(k) \o ".gro"]

\* a variant that leaves the list as it is
KeepFile(list, f) == list

\* list.remove(f): the list without the first element equal to f
RemoveFile(list, f) ==
    LET at == CHOOSE k \in 1 .. Len(list) :
                  list[k] = f /\ \A m \in 1 .. (k - 1) : list[m] # f
    IN  SubSeq(list, 1, at - 1) \o SubSeq(list, at + 1, Len(list))

InitSel ==
    /\ number_of_gro \in 1 .. MaxGro
    /\ file_list = GroFiles(number_of_gro)
    /\ number_of_zeros = Digits(number_of_gro)
    /\ completed_gro = <<>>
    /\ iterations = 0
    /\ written = <<>>
    /\ gpc = "loop"
    /\ gexit = 0
    /\ IdleFix /\ IdleMs /\ IdleDefs

\* an iteration whose configuration has too few QM fitting atoms: skipped
SelSkip(grofile) ==
    /\ gpc = "loop"
    /\ Len(completed_gro) # number_of_gro
    /\ ~(iterations > MaxIterations)
    /\ iterations' = iterations + 1
    /\ UNCHANGED <<file_list, number_of_gro, number_of_zeros, completed_gro,
                   written, gpc, gexit>>
    /\ UNCHANGED notSel

\* an iteration that completes the configuration of grofile
SelComplete(grofile) ==
    /\ gpc = "loop"
    /\ Len(completed_gro) # number_of_gro
    /\ ~(iterations > MaxIterations)
    /\ written' = Append(written, make_filename(number_of_zeros, Len(completed_gro)))
    /\ completed_gro' = Append(completed_gro, grofile)
    /\ file_list' = RemoveFile(file_list, grofile)
    /\ iterations' = iterations + 1
    /\ UNCHANGED <<number_of_gro, number_of_zeros, gpc, gexit>>
    /\ UNCHANGED notSel

\* `if iterations > 3000:` the message is printed and the run ends with
\* sys.exit(1)
SelGiveUp ==
    /\ gpc = "loop"
    /\ Len(completed_gro) # number_of_gro
    /\ iterations > MaxIterations
    /\ gpc' = "exit"
    /\ gexit' = 1
    /\ UNCHANGED <<file_list, number_of_gro, number_of_zeros, completed_gro,
                   iterations, written>>
    /\ UNCHANGED notSel

\* the while condition fails: every gro file is completed
SelFinish ==
    /\ gpc = "loop"
    /\ Len(completed_gro) = number_of_gro
    /\ gpc' = "done"
    /\ UNCHANGED <<file_list, number_of_gro, number_of_zeros, completed_gro,
                   iterations, written, gexit>>
    /\ UNCHANGED notSel

\* grofile = choice(file_list), then one of the two outcomes of the attempt
NextSel ==
    \/ \E k \in 1 .. Len(file_list) : SelSkip(file_list[k])
    \/ \E k \in 1 .. Len(file_list) : SelComplete(file_list[k])
    \/ SelGiveUp
    \/ SelFinish

SpecSel == InitSel /\ [][NextSel]_vars

\* the interpreter goes on with the loop as long as it has a step to take
SpecSelLive == SpecSel /\ WF_vars(NextSel)

\* ------------------------------------------------------ the two filters
\* a run of either filter: xyz_fix_linenu or xyz_add_gen_msite
InitTools == InitFix \/ InitMs

NextTools == NextFix \/ NextMs

SpecTools == InitTools /\ [][NextTools]_vars

\* ===================================================== xyz_fix_linenu claims

\* the frames of the written output, delimited as the format says: a count
\* line, the line after it, and the lines up to the next count line or the end
OutFrames == ParseFrames(fout, 1, <<>>)

RECURSIVE SumLen(_, _)
SumLen(fs, n) == IF n = 0 THEN 0 ELSE SumLen(fs, n - 1) + 2 + Len(fs[n].lines)

\* C7: after the normalizer has finished, every line of the output belongs to
\* a frame, and the number on each frame's count line is the number of body
\* lines between its comment line and the next count line (or the end).
C7_CountEqualsBody ==
    fpc = "done" =>
        /\ SumLen(OutFrames, Len(OutFrames)) = Len(fout)
        /\ \A n \in 1 .. Len(OutFrames) :
              LET f == OutFrames[n]
                  countLine == fout[f.count_line_index]
              IN  /\ is_line_count(countLine)
                  /\ IntOf(Split(countLine)[1])
                       = BodyEnd(fout, f.count_line_index + 2) - (f.count_line_index + 2)

\* C7 witness: a finished run with two frames, one of them with body lines
\* and a declared count that was wrong in the input.
C7_Witness ==
    /\ fpc = "done"
    /\ Len(frames) >= 2
    /\ \E n \in 1 .. Len(frames) :
          /\ frames[n].actual_count > 0
          /\ IntOf(Split(lines[frames[n].count_line_index])[1]) # frames[n].actual_count

\* a stream that is frames only, each a count line, a comment line and
\* exactly the declared number of body lines
RECURSIVE CorrectFrom(_, _)
CorrectFrom(ls, p) ==
    \/ p > Len(ls)
    \/ /\ is_line_count(ls[p])
       /\ LET n == IntOf(Split(ls[p])[1])
          IN  /\ p + 1 + n <= Len(ls)
              /\ CorrectFrom(ls, p + 2 + n)

\* the same, with every count line written as the bare decimal numeral and
\* no body line that is itself a lone integer
RECURSIVE CanonicalFrom(_, _)
CanonicalFrom(ls, p) ==
    \/ p > Len(ls)
    \/ /\ is_line_count(ls[p])
       /\ LET n == IntOf(Split(ls[p])[1])
          IN  /\ ls[p] = FormatCount(n)
              /\ p + 1 + n <= Len(ls)
              /\ \A q \in (p + 2) .. (p + 1 + n) : ~is_line_count(ls[q])
              /\ CanonicalFrom(ls, p + 2 + n)

\* C8 as stated: normalizing an already-correct frame stream gives output
\* identical to the input.
C8_NoOpOnCorrect ==
    (fpc = "done" /\ CorrectFrom(lines, 1)) => fout = lines

\* C8 amended: normalizing an already-correct frame stream whose count lines
\* are bare decimal numerals and whose body lines are not lone integers gives
\* output identical to the input.
C8_NoOpOnCanonical ==
    (fpc = "done" /\ CanonicalFrom(lines, 1)) => fout = lines

\* C8 witness: a finished run on a canonical stream of two frames, one with
\* a body line.
C8_Witness ==
    /\ fpc = "done"
    /\ CanonicalFrom(lines, 1)
    /\ Len(frames) >= 2
    /\ \E n \in 1 .. Len(frames) : frames[n].actual_count > 0

\* the index of the first count line of ls, one past the end if there is none
FirstCount(ls) ==
    IF \E p \in 1 .. Len(ls) : is_line_count(ls[p])
    THEN CHOOSE p \in 1 .. Len(ls) :
            is_line_count(ls[p]) /\ \A q \in 1 .. (p - 1) : ~is_line_count(ls[q])
    ELSE Len(ls) + 1

\* the last line of the frame that starts at fs[k]'s count line: the line in
\* front of the next frame's count line, or the last line of the input, or
\* the line in front of it when the input ends with a count line that no
\* comment line follows
FrameEnd(ls, fs, k) ==
    IF k < Len(fs) THEN fs[k + 1].count_line_index - 1
    ELSE IF is_line_count(ls[Len(ls)]) /\ fs[k].count_line_index + 1 # Len(ls)
         THEN Len(ls) - 1
         ELSE Len(ls)

\* the first k frames as they should be written: the number of body lines,
\* then the input lines from the comment line to the frame's last line
RECURSIVE FramesInFull(_, _, _)
FramesInFull(ls, fs, k) ==
    IF k = 0 THEN <<>>
    ELSE LET c == fs[k].count_line_index
             e == FrameEnd(ls, fs, k)
         IN  FramesInFull(ls, fs, k - 1)
               \o <<FormatCount(e - c - 1)>> \o SubSeq(ls, c + 1, e)

\* C16: the normalizer skips every line in front of the first count line and
\* nothing else, without stopping: while it parses or writes it can always
\* go on; once it is done, the first frame starts at the first count line,
\* every frame starts at a count line, has its comment line and runs up to
\* the next count line behind its comment, and the output is those frames in
\* input order, each with all its lines, so no skipped line is in the output
\* (a count line at the very end that no comment line follows starts no
\* frame).
C16_SkipsAndGoesOn ==
    /\ fpc \in {"parse", "emit"} => ENABLED NextFix
    /\ fpc \in {"parse", "emit", "done"} => fexit = 0
    /\ fpc = "done" =>
          LET s == FirstCount(lines)
              n == Len(frames)
          IN  /\ n = 0 => s >= Len(lines)
              /\ n >= 1 => frames[1].count_line_index = s
              /\ \A k \in 1 .. n :
                    LET c == frames[k].count_line_index
                        e == FrameEnd(lines, frames, k)
                    IN  /\ is_line_count(lines[c])
                        /\ e >= c + 1
                        /\ \A q \in (c + 2) .. e : ~is_line_count(lines[q])
                        /\ (k = n /\ e < Len(lines)) => e = Len(lines) - 1
              /\ fout = FramesInFull(lines, frames, n)

\* C16 witness: a line in front of the first count line was skipped and the
\* two frames behind it were written
C16_Witness ==
    /\ fpc = "done"
    /\ FirstCount(lines) = 2
    /\ Len(frames) = 2
    /\ fout = FramesInFull(lines, frames, 2)
    /\ Len(fout) = Len(lines) - 1

\* =================================================== xyz_add_gen_msite claims

\* the atoms of the group process_molecule was called with last
CallAtoms == ParseAtoms(mol_lines, Len(mol_lines))

Names == {"C1", "H2"}

\* every pattern of 1 .. MaxPat names
AllPatterns == SeqsUpTo(Names, MaxPat) \ {<<>>}

\* the occurrence rank of slot s's name within the pattern
Rank(pattern, s) == Cardinality({t \in 1 .. s : pattern[t] = pattern[s]})

\* the indices (none or one) of the k-th atom called name, in file order
KthAtom(atoms, name, k) ==
    {a \in 1 .. Len(atoms) :
        /\ atoms[a].name = name
        /\ Cardinality({b \in 1 .. a : atoms[b].name = name}) = k}

\* the atom slot s of the pattern stands for; used where it exists
SlotAtom(atoms, pattern, s) ==
    atoms[CHOOSE a \in KthAtom(atoms, pattern[s], Rank(pattern, s)) : TRUE]

\* the group has as many atoms of every name as the pattern asks for
Enough(atoms, pattern) ==
    \A s \in 1 .. Len(pattern) : KthAtom(atoms, pattern[s], Rank(pattern, s)) # {}

\* the definitions whose pattern the group can satisfy, in file order
RECURSIVE Satisfiable(_, _, _)
Satisfiable(atoms, defs, n) ==
    IF n = 0 THEN <<>>
    ELSE IF Enough(atoms, defs[n].atom_names)
         THEN Append(Satisfiable(atoms, defs, n - 1), defs[n])
         ELSE Satisfiable(atoms, defs, n - 1)

CallMatched == Satisfiable(CallAtoms, definitions, Len(definitions))

\* C1: for the group of the latest call and every pattern, the matcher binds
\* slot s to the k-th atom of that slot's name in file order, k being the
\* slot's occurrence rank within the pattern; it succeeds whenever all those
\* atoms exist; two different slots are never bound to the same atom.
C1_KthOccurrenceBinding ==
    LET atoms == CallAtoms
    IN  \A pattern \in AllPatterns :
            LET r == find_pattern_in_molecule(atoms, pattern)
            IN  /\ Enough(atoms, pattern) => r # <<>>
                /\ r # <<>> =>
                     /\ Len(r) = Len(pattern)
                     /\ Enough(atoms, pattern)
                     /\ \A s \in 1 .. Len(pattern) :
                           r[s] = SlotAtom(atoms, pattern, s)
                     /\ \A s, t \in 1 .. Len(pattern) :
                           s # t => r[s].line_index # r[t].line_index

\* C1 witness: the pattern C1 H2 C1 of a loaded definition was matched on a
\* group of three atoms and its record was inserted.
C1_Witness ==
    /\ pc # "raised"
    /\ Len(CallAtoms) = 3
    /\ \E d \in {definitions[k] : k \in 1 .. Len(definitions)} :
          /\ d.atom_names = <<"C1", "H2", "C1">>
          /\ find_pattern_in_molecule(CallAtoms, d.atom_names) # <<>>
    /\ insertions # <<>>

\* C2: in the latest call, the pattern of a loaded definition that the group
\* has too few atoms for is not matched at all, and the records inserted are
\* those of the definitions the group can satisfy, one each, in file order
\* (all of them unless the call raised).
C2_NoPartialInsertion ==
    LET atoms == CallAtoms
        matched == Satisfiable(atoms, definitions, Len(definitions))
    IN  /\ \A k \in 1 .. Len(definitions) :
              ~Enough(atoms, definitions[k].atom_names)
                 => find_pattern_in_molecule(atoms, definitions[k].atom_names) = <<>>
        /\ Len(insertions) <= Len(matched)
        /\ \A k \in 1 .. Len(insertions) :
              Split(insertions[k].line)[1] = matched[k].msite_name
        /\ pc # "raised" =>
              /\ Len(insertions) = Len(matched)
              /\ Len(output_lines) = Len(mol_lines) + Len(matched)

\* C2 witness: a call on a group that some loaded definition's pattern finds
\* partly (its first slot exists, another does not) while another definition
\* matched and had its record inserted.
C2_Witness ==
    /\ pc # "raised"
    /\ mol_lines # <<>>
    /\ \E k \in 1 .. Len(definitions) :
          /\ ~Enough(CallAtoms, definitions[k].atom_names)
          /\ KthAtom(CallAtoms, definitions[k].atom_names[1], 1) # {}
    /\ Len(insertions) = 1
    /\ Len(output_lines) = Len(mol_lines) + 1

\* a line of output_lines that is a synthesized record
IsSynth(line) == \E k \in 1 .. Len(insertions) : insertions[k].line = line

\* how many original lines stand before position p of output_lines
OriginalsBefore(p) ==
    Cardinality({q \in 1 .. (p - 1) : ~IsSynth(output_lines[q])})

\* the line index of the atom bound to the final slot of a definition
Anchor(atoms, d) ==
    SlotAtom(atoms, d.atom_names, Len(d.atom_names)).line_index

\* C3: after a call that returned, the record of every matching definition
\* stands right after the original line of the atom bound to the pattern's
\* final slot: exactly the original lines up to that line stand before it.
C3_PlacedAfterLastBound ==
    pc # "raised" =>
        \A k \in 1 .. Len(CallMatched) :
            \E p \in 1 .. Len(output_lines) :
                /\ IsSynth(output_lines[p])
                /\ Split(output_lines[p])[1] = CallMatched[k].msite_name
                /\ OriginalsBefore(p) = Anchor(CallAtoms, CallMatched[k])

\* the position in output_lines of the j-th original line (one past the end
\* for j beyond the last)
OriginalPos(j) ==
    IF j > Len(mol_lines) THEN Len(output_lines) + 1
    ELSE CHOOSE p \in 1 .. Len(output_lines) :
            ~IsSynth(output_lines[p]) /\ OriginalsBefore(p) = j - 1

\* C4: after a call that returned, the original lines are all there in
\* order, and between the j-th original line and the next stand exactly the
\* records whose insertion index is j, whatever the order of the definitions.
C4_EachAtOwnPosition ==
    pc # "raised" =>
        /\ Cardinality({p \in 1 .. Len(output_lines) : ~IsSynth(output_lines[p])})
             = Len(mol_lines)
        /\ \A j \in 1 .. Len(mol_lines) :
              /\ output_lines[OriginalPos(j)] = mol_lines[j]
              /\ \A k \in 1 .. Len(insertions) :
                    Cardinality({p \in (OriginalPos(j) + 1) .. (OriginalPos(j + 1) - 1) :
                                    output_lines[p] = insertions[k].line})
                      = Cardinality({m \in 1 .. Len(insertions) :
                                    insertions[m] = [index |-> j, line |-> insertions[k].line]})

\* coefficient-weighted sum of coordinate c over the atoms the slots stand for
RECURSIVE SiteCoord(_, _, _, _)
SiteCoord(atoms, d, c, n) ==
    IF n = 0 THEN 0
    ELSE SiteCoord(atoms, d, c, n - 1)
           + d.coefficients[n] * SlotAtom(atoms, d.atom_names, n)[c]

\* C5: every record the latest call synthesized carries, for x, y and z
\* separately, the sum over the slots of coefficient times that coordinate
\* of the slot's atom, the coefficients taken as given.
C5_WeightedSum ==
    LET atoms == CallAtoms
        matched == Satisfiable(atoms, definitions, Len(definitions))
    IN  /\ Len(insertions) <= Len(matched)
        /\ \A k \in 1 .. Len(insertions) :
              LET d == matched[k]
                  toks == Split(insertions[k].line)
                  n == Len(d.atom_names)
              IN  /\ toks[2] = Format7(SiteCoord(atoms, d, "x", n))
                  /\ toks[3] = Format7(SiteCoord(atoms, d, "y", n))
                  /\ toks[4] = Format7(SiteCoord(atoms, d, "z", n))

\* C5 witness: the record of C1 H2 C1 -> EM with coefficients 2, -1, 3 (sum
\* 4) was computed from three atoms at different places and written out.
C5_Witness ==
    /\ pc = "done"
    /\ Len(CallAtoms) = 3
    /\ CallAtoms[1].x # CallAtoms[3].x
    /\ \E k \in 1 .. Len(insertions) :
          /\ Split(insertions[k].line)[1] = "EM"
          /\ \E p \in 1 .. Len(out) : out[p] = insertions[k].line

\* C6: in the latest call, every matching definition whose template line
\* (the line of the atom bound to the final slot) has 8 or more tokens got a
\* record whose three force fields are zero and whose last field is the last
\* token of the template line, the molecule id of the group.
C6_ZeroForcesGroupId ==
    \A k \in 1 .. Len(CallMatched) :
        LET template == Split(mol_lines[Anchor(CallAtoms, CallMatched[k])])
        IN  Len(template) >= 8 =>
              /\ k <= Len(insertions)
              /\ LET toks == Split(insertions[k].line)
                 IN  /\ Len(toks) >= 8
                     /\ toks[5] = "0.0000000" /\ toks[6] = "0.0000000"
                     /\ toks[7] = "0.0000000"
                     /\ <<toks[Len(toks)]>> = get_molecule_id(mol_lines[1])
                     /\ toks[Len(toks)] = template[Len(template)]

\* the number of lines at the front of the stream that carry no molecule id
RECURSIVE HeaderLen(_, _)
HeaderLen(ls, n) ==
    IF n > Len(ls) \/ Len(Split(ls[n])) >= 8 THEN n - 1 ELSE HeaderLen(ls, n + 1)

\* C9: header mode is on exactly while no line of 8 or more tokens has been
\* read (so it stays off for every later line, id or no id); the lines
\* before the first such line are the first lines of the output, unchanged;
\* while header mode is on nothing is grouped or offered to the matcher, and
\* every group ever buffered or offered lies behind the header lines.
C9_HeaderPassthrough ==
    LET h == HeaderLen(inp, 1)
    IN  /\ header_mode = (h = Len(inp))
        /\ Len(out) >= h
        /\ SubSeq(out, 1, h) = SubSeq(inp, 1, h)
        /\ header_mode => (current_mol_lines = <<>> /\ mol_lines = <<>> /\ out = inp)
        /\ current_mol_lines # <<>> =>
              \E a \in (h + 1) .. Len(inp) :
                  current_mol_lines = SubSeq(inp, a, a + Len(current_mol_lines) - 1)
        /\ mol_lines # <<>> =>
              \E a \in (h + 1) .. Len(inp) :
                  mol_lines = SubSeq(inp, a, a + Len(mol_lines) - 1)

\* C9 witness: a header line, then an id-bearing line, then a line without
\* an id, read with header mode off.
C9_Witness ==
    /\ Len(inp) = 3
    /\ HeaderLen(inp, 1) = 1
    /\ get_molecule_id(inp[3]) = None
    /\ ~header_mode
    /\ out # <<>>

\* C10: no line without a molecule id is ever accumulated into a group or
\* passed to process_molecule.
C10_NoIdNeverGrouped ==
    /\ \A k \in 1 .. Len(current_mol_lines) : get_molecule_id(current_mol_lines[k]) # None
    /\ \A k \in 1 .. Len(mol_lines) : get_molecule_id(mol_lines[k]) # None

\* the latest call synthesized the record of its k-th matching definition
\* from a template line of fewer than 8 tokens, and did not raise
DegradedRecord(k) ==
    /\ pc # "raised"
    /\ k <= Len(insertions)
    /\ LET toks == Split(insertions[k].line)
       IN  /\ Len(toks) = 4
           /\ toks[1] = CallMatched[k].msite_name

\* C12: in the latest call, every matching definition whose template line
\* has fewer than 8 tokens got, without the call failing, a record of the
\* site name and the three coordinates only, and a warning was written to
\* standard error.
C12_ShortTemplateWarns ==
    \A k \in 1 .. Len(CallMatched) :
        Len(Split(mol_lines[Anchor(CallAtoms, CallMatched[k])])) < 8 =>
            /\ DegradedRecord(k)
            /\ err # <<>>

SiteNames == {definitions[k].msite_name : k \in 1 .. Len(definitions)}

\* a line that starts with a site name: a synthesized record
IsSiteRecord(line) == line.toks # <<>> /\ line.toks[1] \in SiteNames

\* ls without the synthesized records
RECURSIVE WithoutSiteRecords(_)
WithoutSiteRecords(ls) ==
    IF ls = <<>> THEN <<>>
    ELSE (IF IsSiteRecord(Head(ls)) THEN <<>> ELSE <<Head(ls)>>)
         \o WithoutSiteRecords(Tail(ls))

\* the insertion pass buffers the lines of one group only, and every line
\* read before them has been written, in order (at the end, every line)
MsStreams ==
    pc \in {"read", "done"} =>
        /\ \A k \in 1 .. Len(current_mol_lines) :
              get_molecule_id(current_mol_lines[k]) = current_mol_id
        /\ WithoutSiteRecords(out) \o (IF pc = "read" THEN current_mol_lines ELSE <<>>)
             = inp

\* the number of collected frames the normalizer has written so far
FramesWritten ==
    CASE fpc = "emit" -> i - 1
      [] fpc = "done" -> Len(frames)
      [] OTHER -> 0

\* C14 as stated: both filters stream.  The normalizer holds at most one
\* frame that it has not written; the insertion pass holds at most one
\* group's lines, all earlier lines having been written.
C14_BothStream ==
    /\ Len(frames) - FramesWritten <= 1
    /\ MsStreams

\* C14 amended: only the insertion pass streams.  It holds at most one group's
\* lines, all earlier lines having been written; the normalizer writes
\* nothing while it collects frames, keeps every frame of the input until the
\* end, and has written exactly the frames its output loop has gone through.
C14_OnlyInsertionStreams ==
    /\ MsStreams
    /\ fpc \in {"start", "parse"} => fout = <<>>
    /\ fpc \in {"emit", "done"} => frames = ParseFrames(lines, 1, <<>>)
    /\ Len(fout) = SumLen(frames, FramesWritten)

\* C14 witness, normalizer: two frames are held and none has been written
C14_Witness ==
    /\ fpc = "emit" /\ i = 1
    /\ Len(frames) = 2
    /\ fout = <<>>

\* C17: the insertion pass only adds lines.  At every point the output
\* without its synthesized records is the front part of the input read so
\* far; after a run that completed it is the whole input, line for line and
\* in order (count lines as they were), the output is longer than the input
\* by the number of synthesized records, and with an empty definition list
\* the output is the input.
C17_OnlyAddsLines ==
    /\ LET kept == WithoutSiteRecords(out)
       IN  kept = SubSeq(inp, 1, Len(kept))
    /\ \A k \in 1 .. Len(inp) : ~IsSiteRecord(inp[k])
    /\ pc = "done" =>
          /\ WithoutSiteRecords(out) = inp
          /\ definitions = <<>> => out = inp

\* C17 witness: a completed run whose input had a count line and whose
\* output carries a synthesized record
C17_Witness ==
    /\ pc = "done"
    /\ \E k \in 1 .. Len(inp) : inp[k] = Line(0, <<"3">>)
    /\ Len(out) = Len(inp) + 1
    /\ \E k \in 1 .. Len(out) : IsSiteRecord(out[k])
    /\ WithoutSiteRecords(out) = inp

\* ======================================================= claims on both
\* C15: when the named input file of the normalizer, the named definition
\* file of the insertion tool or its named input file is absent, the run
\* goes from its start straight to its end; at the end the exit status is
\* not 0 and the diagnostic is on standard error; nothing is ever written to
\* standard output.
C15_AbsentFileFails ==
    /\ ~ffound =>
          /\ fpc \in {"start", "exit"}
          /\ fpc = "start" => ENABLED FixNoFile
          /\ fpc = "exit" => (fexit # 0 /\ Len(ferr) = 1)
          /\ fout = <<>>
    /\ (~def_found \/ ~input_found) =>
          /\ pc \in {"start", "exit"}
          /\ pc = "start" => ENABLED (MsNoDefFile \/ MsNoInputFile)
          /\ pc = "exit" => (exit_code # 0 /\ err # <<>>)
          /\ out = <<>>
    /\ fpc = "exit" => ~ffound
    /\ pc = "exit" => (~def_found \/ ~input_found)

\* C15 witness: the insertion tool has loaded its definitions, found its
\* input file absent and ended
C15_Witness ==
    /\ pc = "exit"
    /\ def_found /\ ~input_found
    /\ definitions # <<>>
    /\ exit_code = 1
    /\ err = <<"Error: File not found">>
    /\ out = <<>>

\* ========================================= parse_msite_definitions claims
\* the number of whole three-line blocks among the content lines ls
BlockCount(ls) == Len(ls) \div 3

\* the tokens of the pattern line and of the coefficient line of block k
PatternOf(ls, k) == Split(ls[3 * k - 1])
CoeffsOf(ls, k) == Split(ls[3 * k])

\* block k has a pattern of at least two tokens and as many coefficient
\* tokens as atom names
WellCounted(ls, k) ==
    /\ Len(PatternOf(ls, k)) >= 2
    /\ Len(CoeffsOf(ls, k)) = Len(PatternOf(ls, k)) - 1

\* every coefficient token of block k is a number
Numeric(ls, k) ==
    \A c \in 1 .. Len(CoeffsOf(ls, k)) : IsFloat(CoeffsOf(ls, k)[c])

\* the m-th smallest member of the set of block numbers S
NthBlock(S, m) == CHOOSE k \in S : Cardinality({x \in S : x < k}) = m - 1

\* `loaded` holds the blocks S of ls and nothing else, in file order
HoldsBlocks(loaded, ls, S) ==
    /\ Len(loaded) = Cardinality(S)
    /\ \A m \in 1 .. Len(loaded) :
          LET k == NthBlock(S, m)
          IN  /\ loaded[m].mol_type = ls[3 * k - 2]
              /\ Append(loaded[m].atom_names, loaded[m].msite_name) = PatternOf(ls, k)
              /\ Len(loaded[m].coefficients) = Len(CoeffsOf(ls, k))

\* C11 as stated: the returned list holds exactly the blocks with a pattern of
\* at least two tokens and a matching coefficient count, in file order
C11_LoadsWellCounted ==
    dpc = "returned" =>
        LET ls == ContentLines(def_file)
        IN  HoldsBlocks(parsed, ls,
                        {k \in 1 .. BlockCount(ls) : WellCounted(ls, k)})

\* C11 amended: a block is also skipped when a coefficient is not a number.
\* The returned list holds exactly the blocks with a pattern of at least two
\* tokens, numeric coefficients and a matching coefficient count, in file
\* order; each loaded definition has as many coefficients as atom names, at
\* least one; every other whole block is skipped with one warning and the
\* blocks after it are still looked at
C11_LoadsValidBlocks ==
    dpc = "returned" =>
        LET ls == ContentLines(def_file)
            S == {k \in 1 .. BlockCount(ls) : WellCounted(ls, k) /\ Numeric(ls, k)}
        IN  /\ HoldsBlocks(parsed, ls, S)
            /\ \A m \in 1 .. Len(parsed) :
                  /\ Len(parsed[m].coefficients) = Len(parsed[m].atom_names)
                  /\ Len(parsed[m].atom_names) >= 1
                  /\ parsed[m].coefficients = Floats(CoeffsOf(ls, NthBlock(S, m)))
            /\ Len(dwarn) = BlockCount(ls) - Cardinality(S)

\* a file whose first block is skipped for a coefficient that is not a number
\* and whose second block is loaded
C11_Witness ==
    /\ dpc = "returned"
    /\ LET ls == ContentLines(def_file)
       IN  /\ BlockCount(ls) = 2
           /\ WellCounted(ls, 1) /\ ~Numeric(ls, 1)
           /\ WellCounted(ls, 2) /\ Numeric(ls, 2)
    /\ Len(parsed) = 1 /\ Len(dwarn) = 1

\* ================================================== 02_gen_pxyz.py claims
\* the members of a list
Range(list) == {list[k] : k \in 1 .. Len(list)}

\* the loop has ended as it should: normally, with every gro file completed
\* once, none left, and the results under the names final0, final1, ... in
\* the order of completion, all different; or with status 1 after more than
\* MaxIterations iterations
EndedWell ==
    /\ gpc = "done" =>
          /\ Len(completed_gro) = number_of_gro
          /\ Range(completed_gro) = Range(GroFiles(number_of_gro))
          /\ file_list = <<>>
          /\ written = [k \in 1 .. number_of_gro |->
                           "02_pxyz_files/final" \o ToString(k - 1) \o ".pxyz"]
          /\ \A j, k \in 1 .. Len(written) : j # k => written[j] # written[k]
          /\ iterations <= MaxIterations + 1
          /\ gexit = 0
    /\ gpc = "exit" =>
          /\ iterations > MaxIterations
          /\ Len(completed_gro) < number_of_gro
          /\ gexit = 1

\* a completed file is off the candidate list and is not completed again
CompletedOnce ==
    /\ Range(completed_gro) \cap Range(file_list) = {}
    /\ Cardinality(Range(completed_gro)) = Len(completed_gro)
    /\ Len(completed_gro) + Len(file_list) = number_of_gro
    /\ Len(written) = Len(completed_gro)

\* C18: whatever the outcomes of the attempts, the selection loop ends, and
\* it ends either normally with each of the N gro files completed exactly
\* once and the results named final<k>, k = 0 .. N-1, no name twice, or with
\* exit status 1 once more than 3000 iterations have run; a completed file is
\* never a candidate again.
C18_LoopEnds ==
    /\ <>(gpc \in {"done", "exit"})
    /\ [](EndedWell /\ CompletedOnce)

\* C18 witness: a run over MaxGro files ended normally after some attempts
\* had been skipped
C18_Witness ==
    /\ gpc = "done"
    /\ number_of_gro = MaxGro
    /\ iterations > number_of_gro
    /\ Len(written) = MaxGro

=============================================================================
